---- MODULE Spec2Model ----
(***************************************************************************)
(* Bangladesh economic-indicator ETL pipeline: the transform stage         *)
(* (scripts/transform_data.py) and the local warehouse load                *)
(* (scripts/load_to_warehouse.py) as a state machine over the artifacts    *)
(* on disk, the transformer's data frames and the SQLite fact table.       *)
(*                                                                         *)
(* Conventions.                                                            *)
(*  - A float64 is an exact rational <<n, d>> in lowest terms with d > 0;  *)
(*    d = 0 encodes the IEEE specials: <<1,0>> = +inf, <<-1,0>> = -inf,    *)
(*    <<0,0>> = NaN (pandas' null).  Rounding error is not modelled.       *)
(*  - A string is a sequence of tokens; " " is a run of whitespace, so     *)
(*    str.strip() is not the identity.  <<>> is the empty string, which a  *)
(*    CSV cell cannot tell from a null.                                    *)
(*  - A data frame or a CSV body is a sequence of row records.             *)
(***************************************************************************)
EXTENDS Integers, Sequences, FiniteSets, TLC

\* ------------------------------------------------------------- bounds
\* Starts of the load script in one behaviour.
MaxLoads == 2
\* Longest per-indicator series of the generated raw tables.
MaxLen == 6
\* Rows of the freely enumerated small raw tables.
MaxRows == 2
\* Largest raw observation value of the enumerated series.
MaxVal == 2

\* ------------------------------------------------- program constants
\* "Need at least 5 years for trend"
MinTrendObs == 5

\* ------------------------------------------------ float64 arithmetic
Abs(n) == IF n < 0 THEN -n ELSE n

Sign(n) == IF n > 0 THEN 1 ELSE IF n < 0 THEN -1 ELSE 0

RECURSIVE GCD(_, _)
GCD(a, b) == IF b = 0 THEN a ELSE GCD(b, a % b)

\* The value n/d: lowest terms, sign on the numerator; x/0 is +-inf or NaN.
Norm(n, d) ==
    IF d = 0 THEN <<Sign(n), 0>>
    ELSE LET g == GCD(Abs(n), Abs(d))
         IN  <<(Sign(d) * n) \div g, Abs(d) \div g>>

NaN == <<0, 0>>

Q(n) == <<n, 1>>

IsNaN(v) == v = NaN

\* A cell of a numeric column that holds a text which is no number (such as
\* 2000Q1): read_csv then leaves the whole column as text.
TextCell == <<2, 0>>

IsFinite(v) == v[2] # 0

\* Sums and products go through the least common denominator and cancel
\* before multiplying, to keep the intermediate integers small.
QAdd(a, b) ==
    IF a[2] = 0 /\ b[2] = 0 THEN (IF a = b THEN a ELSE NaN)
    ELSE IF a[2] = 0 THEN a
    ELSE IF b[2] = 0 THEN b
    ELSE LET g == GCD(a[2], b[2])
         IN  Norm(a[1] * (b[2] \div g) + b[1] * (a[2] \div g),
                  (a[2] \div g) * b[2])

QNeg(a) == <<-a[1], a[2]>>

QSub(a, b) == QAdd(a, QNeg(b))

QMul(a, b) ==
    IF a[2] = 0 \/ b[2] = 0 THEN <<Sign(a[1]) * Sign(b[1]), 0>>
    ELSE LET g1 == GCD(Abs(a[1]), b[2])
             g2 == GCD(Abs(b[1]), a[2])
         IN  Norm((a[1] \div g1) * (b[1] \div g2),
                  (a[2] \div g2) * (b[2] \div g1))

QDiv(a, b) ==
    IF a[2] = 0 \/ b[2] = 0 \/ b[1] = 0 THEN Norm(a[1] * b[2], a[2] * b[1])
    ELSE QMul(a, Norm(b[2], b[1]))

\* a < b on values that are not NaN.
QLess(a, b) ==
    IF a[2] = 0 /\ b[2] = 0 THEN a[1] < b[1]
    ELSE a[1] * b[2] < b[1] * a[2]

QLeq(a, b) == a = b \/ QLess(a, b)

\* ------------------------------------------------------------ strings
SP == " "

\* Code-point order of the tokens (' ' < '_' < 'a' < 'e' < 'g' < ...).
TokenRank(t) ==
    CASE t = SP -> 0
      [] t = "_trend_coefficient" -> 1
      [] t = "_yoy_growth_pct" -> 2
      [] t = "agriculture_pct_gdp" -> 3
      [] t = "economic_diversification_index" -> 4
      [] t = "gdp_growth" -> 5
      [] t = "gdp_per_capita" -> 6
      [] t = "industry_pct_gdp" -> 7
      [] t = "population" -> 8
      [] t = "unemployment_rate" -> 9
      [] OTHER -> 10

\* str.upper() on a token.
UpperToken(t) ==
    CASE t = "_trend_coefficient" -> "_TREND_COEFFICIENT"
      [] t = "_yoy_growth_pct" -> "_YOY_GROWTH_PCT"
      [] t = "agriculture_pct_gdp" -> "AGRICULTURE_PCT_GDP"
      [] t = "economic_diversification_index" -> "ECONOMIC_DIVERSIFICATION_INDEX"
      [] t = "gdp_growth" -> "GDP_GROWTH"
      [] t = "gdp_per_capita" -> "GDP_PER_CAPITA"
      [] t = "industry_pct_gdp" -> "INDUSTRY_PCT_GDP"
      [] t = "population" -> "POPULATION"
      [] t = "unemployment_rate" -> "UNEMPLOYMENT_RATE"
      [] OTHER -> t

Upper(s) == [i \in 1..Len(s) |-> UpperToken(s[i])]

RECURSIVE LStrip(_)
LStrip(s) == IF s # <<>> /\ Head(s) = SP THEN LStrip(Tail(s)) ELSE s

RECURSIVE RStrip(_)
RStrip(s) ==
    IF s # <<>> /\ s[Len(s)] = SP THEN RStrip(SubSeq(s, 1, Len(s) - 1)) ELSE s

\* str.strip()
Strip(s) == RStrip(LStrip(s))

\* s < t in Python's string order.
RECURSIVE StrLess(_, _)
StrLess(s, t) ==
    IF t = <<>> THEN FALSE
    ELSE IF s = <<>> THEN TRUE
    ELSE IF Head(s) # Head(t) THEN TokenRank(Head(s)) < TokenRank(Head(t))
    ELSE StrLess(Tail(s), Tail(t))

\* ------------------------------------------------------- data frames
RECURSIVE SeqToSet(_)
SeqToSet(s) == IF s = <<>> THEN {} ELSE {Head(s)} \cup SeqToSet(Tail(s))

\* Series.unique(): the distinct elements in order of first appearance.
RECURSIVE Unique(_)
Unique(s) ==
    IF s = <<>> THEN <<>>
    ELSE LET init == Unique(SubSeq(s, 1, Len(s) - 1))
             last == s[Len(s)]
         IN  IF \E i \in 1..Len(init) : init[i] = last THEN init
             ELSE Append(init, last)

Names(rows) == [i \in 1..Len(rows) |-> rows[i].indicator_name]

Years(rows) == [i \in 1..Len(rows) |-> rows[i].year]

Key(r) == <<r.indicator_name, r.year>>

KeySet(rows) == {Key(rows[i]) : i \in 1..Len(rows)}

\* duplicated(subset=['indicator_name', 'year']).any()
HasDuplicateKeys(rows) ==
    \E i, j \in 1..Len(rows) : i < j /\ Key(rows[i]) = Key(rows[j])

WithName(rows, name) == SelectSeq(rows, LAMBDA r : r.indicator_name = name)

YearLess(a, b) == a.year < b.year

NameYearLess(a, b) ==
    \/ StrLess(a.indicator_name, b.indicator_name)
    \/ (a.indicator_name = b.indicator_name /\ a.year < b.year)

IntLess(a, b) == a < b

\* The strict order a sort goes by.
Before(by, a, b) ==
    CASE by = "year" -> YearLess(a, b)
      [] by = "name_year" -> NameYearLess(a, b)
      [] by = "int" -> IntLess(a, b)
      [] by = "str" -> StrLess(a, b)
      [] by = "name_float_year" ->
             \/ StrLess(a.indicator_name, b.indicator_name)
             \/ (a.indicator_name = b.indicator_name /\ QLess(a.year, b.year))

\* Stable sort of a sequence (pandas sorts several keys with a stable
\* lexsort; numpy sorts a short single key by insertion).
StableSort(rows, by) ==
    LET n == Len(rows)
        pos(i) == Cardinality({j \in 1..n :
                      \/ Before(by, rows[j], rows[i])
                      \/ (j < i /\ ~Before(by, rows[i], rows[j]))}) + 1
    IN  [p \in 1..n |-> rows[CHOOSE i \in 1..n : pos(i) = p]]

\* ---------------------------------------------------------- clean_data
\* dropna(subset=['value'])
DropNa(rows) == SelectSeq(rows, LAMBDA r : ~IsNaN(r.value))

\* A faulty variant: of the rows with one key the last one is kept.
RECURSIVE DropDuplicates_Last(_)
DropDuplicates_Last(rows) ==
    IF rows = <<>> THEN <<>>
    ELSE LET n == Len(rows)
             rest == DropDuplicates_Last(SubSeq(rows, 2, n))
         IN  IF \E i \in 2..n : Key(rows[i]) = Key(rows[1]) THEN rest
             ELSE <<rows[1]>> \o rest

\* drop_duplicates(subset=['indicator_name', 'year']): keep='first'.
RECURSIVE DropDuplicates(_)
DropDuplicates(rows) ==
    IF rows = <<>> THEN <<>>
    ELSE LET n == Len(rows)
             init == DropDuplicates(SubSeq(rows, 1, n - 1))
         IN  IF \E i \in 1..(n - 1) : Key(rows[i]) = Key(rows[n]) THEN init
             ELSE Append(init, rows[n])

\* astype(int) on a float: truncation toward zero.
AsInt(y) == Sign(y[1]) * (Abs(y[1]) \div y[2])

\* The column assignments of clean_data, row by row.
Standardize(r) ==
    [r EXCEPT !.country_name = Strip(@),
              !.country_code = "BGD",
              !.indicator_name = Strip(@),
              !.year = AsInt(@)]

\* A column read_csv found empty in every row is float64, and .str raises.
StrAccessorRaises(rows) ==
    /\ rows # <<>>
    /\ \A i \in 1..Len(rows) : rows[i].country_name = <<>>

CleanRows(rows) ==
    LET deduped == DropDuplicates(DropNa(rows))
        std == [i \in 1..Len(deduped) |-> Standardize(deduped[i])]
    IN  StableSort(std, "name_year")

\* ----------------------------------------------------- create_features
growth_indicators == <<"gdp_per_capita", "population", "gdp_growth">>

\* Series.pct_change() * 100 of one step: (cur / prev - 1) * 100.
PctChange(prev, cur) == QMul(QSub(QDiv(cur, prev), Q(1)), Q(100))

YoYRow(indicator, row, pct) ==
    [country_name |-> row.country_name,
     country_code |-> row.country_code,
     indicator_code |-> <<"CALC_", UpperToken(indicator), "_YOY">>,
     indicator_name |-> <<indicator, "_yoy_growth_pct">>,
     year |-> row.year,
     value |-> pct]

\* The rows one growth indicator adds to df_features.
YoYRows(df, indicator) ==
    LET data == StableSort(WithName(df, <<indicator>>), "year")
        all == [i \in 1..Len(data) |->
                   YoYRow(indicator, data[i],
                          IF i = 1 THEN NaN
                          ELSE PctChange(data[i - 1].value, data[i].value))]
    IN  IF Len(data) > 1 THEN SelectSeq(all, LAMBDA r : ~IsNaN(r.value))
        ELSE <<>>

\* A faulty variant: the YoY rows are put in front of the dataset, in
\* place of the first rows it has.
RECURSIVE AddGrowth_InPlace(_, _)
AddGrowth_InPlace(df, k) ==
    IF k = 0 THEN df
    ELSE LET before == AddGrowth_InPlace(df, k - 1)
             yoy == YoYRows(before, growth_indicators[k])
         IN  yoy \o SubSeq(before, Len(yoy) + 1, Len(before))

RECURSIVE AddGrowth(_, _)
AddGrowth(df, k) ==
    IF k = 0 THEN df
    ELSE LET before == AddGrowth(df, k - 1)
         IN  before \o YoYRows(before, growth_indicators[k])

\* df.pivot(index='year', columns='indicator_name', values='value') raises
\* ValueError when a (year, indicator_name) pair occurs twice.
PivotRaises(rows) == HasDuplicateKeys(rows)

\* The pivot's cell; NaN where the combination is missing.
Cell(rows, name, year) ==
    IF \E i \in 1..Len(rows) : Key(rows[i]) = <<name, year>>
    THEN rows[CHOOSE i \in 1..Len(rows) : Key(rows[i]) = <<name, year>>].value
    ELSE NaN

\* The pivot's index: the distinct years, ascending.
PivotIndex(rows) == StableSort(Unique(Years(rows)), "int")

\* The pivot's columns: the distinct names, ascending.
PivotColumns(rows) == StableSort(Unique(Names(rows)), "str")

Square(v) == QMul(v, v)

\* A faulty variant that forgets the services share; the range property of
\* the index tells it from the code's formula.
DiversificationIdx_TwoSectors(agri, ind) ==
    QSub(Q(1), QAdd(Square(QDiv(agri, Q(100))), Square(QDiv(ind, Q(100)))))

DiversificationIdx(agri, ind) ==
    LET services == QSub(QSub(Q(100), agri), ind)
    IN  QSub(Q(1),
             QAdd(QAdd(Square(QDiv(agri, Q(100))),
                       Square(QDiv(ind, Q(100)))),
                  Square(QDiv(services, Q(100)))))

DivRow(year, idx) ==
    [country_name |-> <<"Bangladesh">>,
     country_code |-> "BGD",
     indicator_code |-> <<"CALC_ECON_DIV_IDX">>,
     indicator_name |-> <<"economic_diversification_index">>,
     year |-> year,
     value |-> idx]

DiversificationRows(df) ==
    LET cols == SeqToSet(Names(df))
        idx == PivotIndex(df)
        all == [i \in 1..Len(idx) |->
                   DivRow(idx[i],
                          DiversificationIdx(
                              Cell(df, <<"agriculture_pct_gdp">>, idx[i]),
                              Cell(df, <<"industry_pct_gdp">>, idx[i])))]
    IN  IF <<"agriculture_pct_gdp">> \in cols /\ <<"industry_pct_gdp">> \in cols
        THEN SelectSeq(all, LAMBDA r : ~IsNaN(r.value))
        ELSE <<>>

\* create_features raises (and sets no df_features) when its pivot raises.
FeaturesRaises(clean) == PivotRaises(AddGrowth(clean, Len(growth_indicators)))

FeatureRows(clean) ==
    LET grown == AddGrowth(clean, Len(growth_indicators))
    IN  grown \o DiversificationRows(grown)

\* ------------------------------------------ create_time_series_analysis
RECURSIVE SumQ(_)
SumQ(vals) == IF vals = <<>> THEN Q(0) ELSE QAdd(Head(vals), SumQ(Tail(vals)))

RECURSIVE SumInt(_)
SumInt(ns) == IF ns = <<>> THEN 0 ELSE Head(ns) + SumInt(Tail(ns))

\* np.polyfit(years, values, 1)[0]: the least-squares slope, computed on years
\* shifted by the first one (the slope does not depend on the shift).
\*  - a non-finite value: LAPACK's gelsd rescales the right-hand side by
\*    0 (inf * 0), every coefficient comes out NaN, and nothing is raised;
\*  - all years equal: the rank-1 minimum-norm solution of the column-scaled
\*    system, mean(values) / (2 * year).
PolyfitSlope(years, values) ==
    LET n == Len(years)
        u == [i \in 1..n |-> years[i] - years[1]]
        Su == SumInt(u)
        Suu == SumInt([i \in 1..n |-> u[i] * u[i]])
        Sy == SumQ(values)
        Suy == SumQ([i \in 1..n |-> QMul(Q(u[i]), values[i])])
        den == n * Suu - Su * Su
    IN  IF \E i \in 1..n : ~IsFinite(values[i]) THEN NaN
        ELSE IF den = 0 THEN QDiv(Sy, Q(2 * n * years[1]))
        ELSE QDiv(QSub(QMul(Q(n), Suy), QMul(Q(Su), Sy)), Q(den))

TrendRow(indicator, year, coef) ==
    [country_name |-> <<"Bangladesh">>,
     country_code |-> "BGD",
     indicator_code |-> <<"TREND_">> \o Upper(indicator),
     indicator_name |-> indicator \o <<"_trend_coefficient">>,
     year |-> year,
     value |-> coef]

Values(rows) == [i \in 1..Len(rows) |-> rows[i].value]

\* A faulty variant that fits a trend from three observations on.
TrendRows_FromThree(df_ts, indicator) ==
    LET data == StableSort(WithName(df_ts, indicator), "year")
        years == Years(data)
        values == Values(data)
    IN  IF /\ Len(data) >= 3
           /\ Len(years) > 1
           /\ \A i \in 1..Len(values) : ~IsNaN(values[i])
        THEN <<TrendRow(indicator, years[Len(years)],
                        PolyfitSlope(years, values))>>
        ELSE <<>>

\* One pass of the loop body: the rows an indicator adds to df_ts, read from
\* df_ts as it stands when the loop reaches the indicator.
TrendRows(df_ts, indicator) ==
    LET data == StableSort(WithName(df_ts, indicator), "year")
        years == Years(data)
        values == Values(data)
    IN  IF /\ Len(data) >= MinTrendObs
           /\ Len(years) > 1
           /\ \A i \in 1..Len(values) : ~IsNaN(values[i])
        THEN <<TrendRow(indicator, years[Len(years)],
                        PolyfitSlope(years, values))>>
        ELSE <<>>

RECURSIVE AddTrends(_, _, _)
AddTrends(df_ts, indicators, k) ==
    IF k = 0 THEN df_ts
    ELSE LET before == AddTrends(df_ts, indicators, k - 1)
         IN  before \o TrendRows(before, indicators[k])

\* The loop runs over the names df_ts has before the loop starts.
TimeSeriesRows(features) ==
    LET indicators == Unique(Names(features))
    IN  AddTrends(features, indicators, Len(indicators))

\* ------------------------------------- generate_summary_statistics
\* round(3) of a float: to the nearest thousandth, ties to even.
Round3(v) ==
    IF ~IsFinite(v) THEN v
    ELSE LET s == Sign(v[1])
             num == Abs(v[1]) * 1000
             q == num \div v[2]
             r2 == 2 * (num % v[2])
             up == r2 > v[2] \/ (r2 = v[2] /\ q % 2 = 1)
         IN  Norm(s * (IF up THEN q + 1 ELSE q), 1000)

RECURSIVE MinQ(_)
MinQ(vals) ==
    IF Len(vals) = 1 THEN vals[1]
    ELSE LET m == MinQ(Tail(vals))
         IN  IF QLess(m, Head(vals)) THEN m ELSE Head(vals)

RECURSIVE MaxQ(_)
MaxQ(vals) ==
    IF Len(vals) = 1 THEN vals[1]
    ELSE LET m == MaxQ(Tail(vals))
         IN  IF QLess(Head(vals), m) THEN m ELSE Head(vals)

\* One summary record (std_value, a square root, is left out of the model).
\* The aggregates skip nulls; over no value at all they are NaN.
IndicatorStats(rows, indicator) ==
    LET data == WithName(rows, indicator)
        years == StableSort(Years(data), "int")
        vals == SelectSeq(Values(data), LAMBDA v : ~IsNaN(v))
    IN  [indicator |-> indicator,
         count |-> Len(data),
         min_year |-> years[1],
         max_year |-> years[Len(years)],
         mean_value |-> IF vals = <<>> THEN NaN
                        ELSE Round3(QDiv(SumQ(vals), Q(Len(vals)))),
         min_value |-> IF vals = <<>> THEN NaN ELSE Round3(MinQ(vals)),
         max_value |-> IF vals = <<>> THEN NaN ELSE Round3(MaxQ(vals)),
         null_count |-> Len(data) - Len(vals)]

\* A faulty variant: one summary record per observation.
SummaryRows_PerRow(rows) ==
    [i \in 1..Len(rows) |-> IndicatorStats(rows, rows[i].indicator_name)]

SummaryRows(rows) ==
    LET indicators == Unique(Names(rows))
    IN  [i \in 1..Len(indicators) |-> IndicatorStats(rows, indicators[i])]

\* ------------------------------------------------ save_processed_data
\* The wide table: one line per year, one column per indicator name; a
\* missing combination is NaN, which to_csv writes as an empty cell.
WideTable(rows) ==
    LET cols == PivotColumns(rows)
        idx == PivotIndex(rows)
    IN  [columns |-> cols,
         lines |-> [i \in 1..Len(idx) |->
                      [year |-> idx[i],
                       cells |-> [c \in 1..Len(cols) |->
                                     Cell(rows, cols[c], idx[i])]]]]

\* ----------------------------------------------------------- the state
VARIABLES
    raw_file,       \* data/api/bangladesh_wb_direct.csv
    long_file,      \* data/processed/bangladesh_economic_indicators_processed.csv
    wide_file,      \* data/processed/bangladesh_economic_indicators_wide.csv
    summary_file,   \* data/processed/bangladesh_data_summary.csv
    tpc,            \* where the transform script stands
    df,             \* BangladeshDataTransformer.df
    df_clean,       \* BangladeshDataTransformer.df_clean
    df_features,    \* BangladeshDataTransformer.df_features
    processed_df,   \* BangladeshDataTransformer.processed_df
    t_written,      \* the artifacts this transform run has written
    t_last,         \* the last phase the transform script has entered
    db,             \* data/warehouse/bangladesh_economic_data.db, as committed
    conn,           \* the tables as the open connection sees them
    wpc,            \* where the load script stands
    success_steps,  \* run_warehouse_pipeline's success_steps
    w_result,       \* what run_warehouse_pipeline returned
    backup,         \* the processed files the last backup copied
    fact_before,    \* economic_indicators as the last load found it
    loads,          \* how often the load script has been started
    ipc,            \* where the ingest script stands
    i_k,            \* the catalog entry the ingest loop is at
    all_records,    \* ingest_data.main's all_records
    fetched,        \* what the API answered to this ingest run, in order
    f_pc,           \* the stage the flow is at, or how it ended
    f_running,      \* a stage task has started its script and waits for it
    f_attempts,     \* attempts of each stage task in this flow run
    f_counts,       \* the counts the stage tasks returned
    quality_score   \* what validate_quality returned

tvars == <<raw_file, long_file, wide_file, summary_file, tpc, df, df_clean,
           df_features, processed_df, t_written, t_last>>

wvars == <<db, conn, wpc, success_steps, w_result, backup, fact_before, loads>>

ivars == <<ipc, i_k, all_records, fetched>>

fvars == <<f_pc, f_running, f_attempts, f_counts, quality_score>>

vars == <<tvars, wvars, ivars, fvars>>

NoFile == [exists |-> FALSE, columns |-> {}, rows |-> <<>>]

AllColumns ==
    {"country_name", "country_code", "indicator_code", "indicator_name",
     "year", "value"}

CsvFile(rows) == [exists |-> TRUE, columns |-> AllColumns, rows |-> rows]

\* ------------------------------------------------ the raw tables tried
\* The catalog of ingest_data.py, name -> World Bank code.
CatalogCode(t) ==
    CASE t = "gdp_per_capita" -> "NY.GDP.PCAP.KD"
      [] t = "population" -> "SP.POP.TOTL"
      [] t = "gdp_growth" -> "NY.GDP.MKTP.KD.ZG"
      [] t = "unemployment_rate" -> "SL.UEM.TOTL.ZS"
      [] t = "agriculture_pct_gdp" -> "NV.AGR.TOTL.ZS"
      [] t = "industry_pct_gdp" -> "NV.IND.TOTL.ZS"
      [] OTHER -> "OTHER"

\* A raw row as ingest writes it; year is a float column when read back.
RawRow(name, year, value) ==
    [country_name |-> <<"Bangladesh">>,
     country_code |-> "BGD",
     indicator_code |-> <<CatalogCode(Strip(name)[1])>>,
     indicator_name |-> name,
     year |-> year,
     value |-> value]

FirstYear == 2000

\* Rows for the freely enumerated tables: a name with and without leading
\* whitespace, a whole and a fractional year, null and non-null values, a
\* later year, and rows whose country fields are blank, padded or foreign.
SmallRows ==
    {RawRow(name, year, value) :
        name \in {<<"gdp_per_capita">>, <<SP, "gdp_per_capita">>},
        year \in {Q(FirstYear), <<2 * FirstYear + 1, 2>>},
        value \in {NaN, Q(1), Q(2)}}
    \cup {RawRow(<<"gdp_per_capita">>, Q(FirstYear + 1), Q(2)),
          [RawRow(<<"population">>, Q(FirstYear), Q(1))
             EXCEPT !.country_name = <<>>],
          [RawRow(<<"population">>, Q(FirstYear + 1), Q(2))
             EXCEPT !.country_name = <<SP, "Bangladesh", SP>>,
                    !.country_code = "BD"]}

SmallTables == UNION {[1..n -> SmallRows] : n \in 0..MaxRows}

\* value(t) = a * t + b over n consecutive years, the value of year number
\* spike (if any) one higher.
Series(name, n, a, b, spike) ==
    [t \in 1..n |->
        RawRow(name, Q(FirstYear + t - 1),
               Q(a * (t - 1) + b + (IF t = spike THEN 1 ELSE 0)))]

Slopes == {-1, 0, 1}

SeriesTables ==
    {Series(<<name>>, n, a, b, spike) :
        name \in {"gdp_growth", "unemployment_rate"},
        n \in 1..MaxLen, a \in Slopes, b \in 0..MaxVal,
        spike \in 0..MaxLen}

\* Sector shares: each of two years has, or lacks, each of the two shares.
PctVals == {Q(-10), Q(0), Q(50), Q(100)}

SectorRows(name, present) ==
    IF IsNaN(present[1]) THEN <<>>
    ELSE <<RawRow(<<name>>, Q(present[2]), present[1])>>

SectorTables ==
    {SectorRows("agriculture_pct_gdp", <<a0, FirstYear>>)
       \o SectorRows("agriculture_pct_gdp", <<a1, FirstYear + 1>>)
       \o SectorRows("industry_pct_gdp", <<i0, FirstYear>>)
       \o SectorRows("industry_pct_gdp", <<i1, FirstYear + 1>>) :
        a0 \in PctVals \cup {NaN}, a1 \in PctVals \cup {NaN},
        i0 \in PctVals \cup {NaN}, i1 \in PctVals \cup {NaN}}

\* Both sector shares and a growth indicator over the same n years.
CatalogTables ==
    {Series(<<"agriculture_pct_gdp">>, n, -a, 40, 0)
       \o Series(<<"industry_pct_gdp">>, n, a, 20 + b, 0)
       \o Series(<<"gdp_per_capita">>, n, a, b + 1, spike) :
        n \in 1..MaxLen, a \in {0, 1}, b \in 0..MaxVal, spike \in 0..1}

\* The spec's end-to-end scenario.
ScenarioTable ==
    <<RawRow(<<"gdp_per_capita">>, Q(2000), Q(100)),
      RawRow(<<"gdp_per_capita">>, Q(2001), Q(110)),
      RawRow(<<"gdp_per_capita">>, Q(2002), Q(121))>>

\* A raw table that already holds rows named like derived indicators: m rows
\* named <name><suffix> on the last m years of an n-year series.
DerivedNameTables ==
    UNION {{Series(<<"gdp_growth">>, n, 1, 1, 0)
              \o SubSeq(Series(<<"gdp_growth", suffix>>, n, a, 0, 0),
                        n - m + 1, n) :
               m \in 1..n, a \in 0..1,
               suffix \in {"_yoy_growth_pct", "_trend_coefficient"}} :
           n \in 1..MaxLen}

\* Sector shares next to rows whose keys collide: after trimming, or with
\* a derived row.
MixedTables ==
    {sector \o extra :
        sector \in {<<>>,
                    <<RawRow(<<"agriculture_pct_gdp">>, Q(FirstYear), Q(50)),
                      RawRow(<<"industry_pct_gdp">>, Q(FirstYear), Q(50))>>},
        extra \in {<<RawRow(<<SP, "population">>, Q(FirstYear), Q(1)),
                     RawRow(<<"population">>, Q(FirstYear), Q(2)),
                     RawRow(<<"population">>, Q(FirstYear + 1), Q(3))>>,
                   <<RawRow(<<"population">>, Q(FirstYear), Q(1)),
                     RawRow(<<"population">>, Q(FirstYear + 1), Q(2)),
                     RawRow(<<"population", "_yoy_growth_pct">>,
                            Q(FirstYear + 1), Q(7))>>}}

\* Raw tables whose year column is text.
TextYearTables ==
    {<<RawRow(<<"gdp_per_capita">>, TextCell, Q(1))>>,
     <<RawRow(<<"gdp_per_capita">>, TextCell, Q(1)),
       RawRow(<<"population">>, TextCell, Q(2))>>}

RawTables ==
    SmallTables \cup SeriesTables \cup SectorTables \cup CatalogTables
        \cup {ScenarioTable} \cup DerivedNameTables \cup MixedTables
        \cup TextYearTables

\* Raw files with a required column missing.
ShortFiles ==
    {[CsvFile(ScenarioTable) EXCEPT !.columns = AllColumns \ {c}] :
        c \in {"year", "value", "country_name", "indicator_name"}}

RawFiles == {CsvFile(t) : t \in RawTables} \cup ShortFiles \cup {NoFile}

\* The raw files tried on top of what an earlier run has left behind.
RerunFiles ==
    {CsvFile(t) : t \in DerivedNameTables \cup {ScenarioTable, <<>>}}
        \cup {CsvFile(<<r>>) : r \in SmallRows} \cup ShortFiles \cup {NoFile}

\* ------------------------------------------------ the SQLite warehouse
NoTables == [economic_indicators |-> <<>>, indicator_summary |-> <<>>]

NoDb == [exists |-> FALSE, schema |-> FALSE, views |-> FALSE,
         tables |-> NoTables]

\* The processed long table of a whole transform over a raw table.
Transformed(raw) == TimeSeriesRows(FeatureRows(CleanRows(raw)))

\* read_csv gives an empty cell as NaN, sqlite3 binds NaN as NULL, and the
\* text columns of economic_indicators are NOT NULL: with no default value,
\* OR REPLACE falls back to ABORT and the insert raises IntegrityError.
InsertRaises(row) ==
    \/ row.country_name = <<>>
    \/ row.indicator_code = <<>>
    \/ row.indicator_name = <<>>

\* A faulty variant: a plain INSERT into a table without the UNIQUE key.
InsertOrReplace_Append(table, row) == Append(table, row)

\* INSERT OR REPLACE under UNIQUE(indicator_name, year): the row that holds
\* the key is deleted and the new row gets a new rowid.
InsertOrReplace(table, row) ==
    Append(SelectSeq(table, LAMBDA r : Key(r) # Key(row)), row)

\* The first k rows inserted one after the other.
RECURSIVE InsertAll(_, _, _)
InsertAll(table, rows, k) ==
    IF k = 0 THEN table
    ELSE InsertOrReplace(InsertAll(table, rows, k - 1), rows[k])

\* A faulty variant: the load without its DELETE.
DeleteAll_Nothing(table) == table

\* DELETE FROM economic_indicators
DeleteAll(table) == <<>>

\* How many rows go in before an insert raises (all of them if none does).
Inserted(rows) ==
    IF \E i \in 1..Len(rows) : InsertRaises(rows[i])
    THEN (CHOOSE i \in 1..Len(rows) :
             /\ InsertRaises(rows[i])
             /\ \A j \in 1..(i - 1) : ~InsertRaises(rows[j])) - 1
    ELSE Len(rows)

\* The fact table after the delete and the insert loop.
LoadFact(table, rows) == InsertAll(DeleteAll(table), rows, Inserted(rows))

\* INSERT OR REPLACE INTO indicator_summary, keyed by indicator_name.
RECURSIVE LoadSummary(_, _)
LoadSummary(rows, k) ==
    IF k = 0 THEN <<>>
    ELSE Append(SelectSeq(LoadSummary(rows, k - 1),
                          LAMBDA r : r.indicator # rows[k].indicator),
                rows[k])

\* to_csv of a frame without columns writes no header, and read_csv raises
\* EmptyDataError on it.
SummaryUnreadable(file) == file.rows = <<>>

\* The artifacts and the database an earlier, complete run has left behind.
EarlierRaw ==
    Series(<<"gdp_per_capita">>, 2, 1, 1, 0) \o Series(<<"population">>, 1, 0, 5, 0)

EarlierLong == CsvFile(Transformed(EarlierRaw))

EarlierWide == [exists |-> TRUE, table |-> WideTable(EarlierLong.rows)]

EarlierSummary == [exists |-> TRUE, rows |-> SummaryRows(EarlierLong.rows)]

EarlierDb ==
    [exists |-> TRUE, schema |-> TRUE, views |-> TRUE,
     tables |-> [economic_indicators |-> LoadFact(<<>>, EarlierLong.rows),
                 indicator_summary |->
                     LoadSummary(EarlierSummary.rows, Len(EarlierSummary.rows))]]

NoWideFile == [exists |-> FALSE, table |-> [columns |-> <<>>, lines |-> <<>>]]

NoSummaryFile == [exists |-> FALSE, rows |-> <<>>]

\* Stage names of the flow, and the state of a flow that is not running.
Stages == {"ingest", "transform", "load"}

NoFlow ==
    /\ ipc = "idle"
    /\ i_k = 0
    /\ all_records = <<>>
    /\ fetched = <<>>
    /\ f_pc = "idle"
    /\ f_running = FALSE
    /\ f_attempts = [s \in Stages |-> 0]
    /\ f_counts = [s \in Stages |-> -1]
    /\ quality_score = -1

\* --------------------------------------------------------------- Init
\* The scripts run by hand: the transform on a raw file, then the load.
Init ==
    /\ NoFlow
    /\ \/ /\ raw_file \in RawFiles
          /\ long_file = NoFile
          /\ wide_file = NoWideFile
          /\ summary_file = NoSummaryFile
          /\ db = NoDb
       \/ /\ raw_file \in RerunFiles
          /\ long_file = EarlierLong
          /\ wide_file = EarlierWide
          /\ summary_file = EarlierSummary
          /\ db = EarlierDb
    /\ conn = NoTables
    /\ wpc = "idle"
    /\ success_steps = {}
    /\ w_result = "none"
    /\ backup = {}
    /\ fact_before = <<>>
    /\ loads = 0
    /\ tpc = "load"
    /\ df = <<>>
    /\ df_clean = <<>>
    /\ df_features = <<>>
    /\ processed_df = <<>>
    /\ t_written = {}
    /\ t_last = "none"

\* --------------------------------------------- transform_data.py steps
required_cols == {"country_name", "indicator_name", "year", "value"}

\* load_raw_data: False when the file is absent or the read-back fails
\* (the report line reads df['year']).
LoadRawData ==
    /\ tpc = "load"
    /\ t_last' = "load"
    /\ IF ~raw_file.exists
       THEN /\ tpc' = "returned_false"
            /\ df' = df
       ELSE /\ df' = raw_file.rows
            /\ tpc' = IF "year" \in raw_file.columns THEN "validate"
                      ELSE "returned_false"
    /\ UNCHANGED <<raw_file, long_file, wide_file, summary_file, df_clean,
                   df_features, processed_df, t_written,
                   wvars, ivars, fvars>>

\* The year-range check compares df['year'].min() with 1990: the smallest
\* cell of a text column is a str, and str < int raises TypeError.
YearRangeRaises(rows) == \E i \in 1..Len(rows) : rows[i].year = TextCell

\* validate_raw_data: raises on a missing required column and on a year
\* column that is text, else only prints.
ValidateRawData ==
    /\ tpc = "validate"
    /\ t_last' = "validate"
    /\ tpc' = IF required_cols \subseteq raw_file.columns /\ ~YearRangeRaises(df)
              THEN "clean"
              ELSE "raised"
    /\ UNCHANGED <<raw_file, long_file, wide_file, summary_file, df, df_clean,
                   df_features, processed_df, t_written,
                   wvars, ivars, fvars>>

CleanData ==
    /\ tpc = "clean"
    /\ t_last' = "clean"
    /\ IF StrAccessorRaises(df)
       THEN /\ tpc' = "raised"
            /\ df_clean' = df_clean
       ELSE /\ tpc' = "features"
            /\ df_clean' = CleanRows(df)
    /\ UNCHANGED <<raw_file, long_file, wide_file, summary_file, df,
                   df_features, processed_df, t_written,
                   wvars, ivars, fvars>>

CreateFeatures ==
    /\ tpc = "features"
    /\ t_last' = "features"
    /\ IF FeaturesRaises(df_clean)
       THEN /\ tpc' = "raised"
            /\ df_features' = df_features
       ELSE /\ tpc' = "timeseries"
            /\ df_features' = FeatureRows(df_clean)
    /\ UNCHANGED <<raw_file, long_file, wide_file, summary_file, df, df_clean,
                   processed_df, t_written,
                   wvars, ivars, fvars>>

CreateTimeSeriesAnalysis ==
    /\ tpc = "timeseries"
    /\ t_last' = "timeseries"
    /\ tpc' = "save"
    /\ processed_df' = TimeSeriesRows(df_features)
    /\ UNCHANGED <<raw_file, long_file, wide_file, summary_file, df, df_clean,
                   df_features, t_written,
                   wvars, ivars, fvars>>

\* save_processed_data: the long table is written first; the pivot for the
\* wide table raises on a duplicate key, and nothing more is written then.
SaveProcessedData ==
    /\ tpc = "save"
    /\ t_last' = "save"
    /\ long_file' = CsvFile(processed_df)
    /\ IF PivotRaises(processed_df)
       THEN /\ tpc' = "raised"
            /\ t_written' = t_written \cup {"long"}
            /\ UNCHANGED <<wide_file, summary_file>>
       ELSE /\ tpc' = "done"
            /\ t_written' = t_written \cup {"long", "wide", "summary"}
            /\ wide_file' = [exists |-> TRUE, table |-> WideTable(processed_df)]
            /\ summary_file' = [exists |-> TRUE,
                                rows |-> SummaryRows(processed_df)]
    /\ UNCHANGED <<raw_file, df, df_clean, df_features, processed_df,
                   wvars, ivars, fvars>>

\* --------------------------------------------- load_to_warehouse.py steps
TransformEnded == tpc \in {"done", "returned_false", "raised"}

\* main(): nothing is run when a processed file is missing.
WarehouseMain ==
    /\ TransformEnded
    /\ wpc \in {"idle", "exited"}
    /\ loads < MaxLoads
    /\ loads' = loads + 1
    /\ success_steps' = {}
    /\ w_result' = "none"
    /\ wpc' = IF long_file.exists /\ wide_file.exists /\ summary_file.exists
              THEN "connect" ELSE "exited"
    /\ UNCHANGED <<ivars, fvars, tvars, db, conn, backup, fact_before>>

\* connect_to_warehouse: sqlite3.connect creates the file when it is absent.
ConnectToWarehouse ==
    /\ wpc = "connect"
    /\ db' = [db EXCEPT !.exists = TRUE]
    /\ conn' = db.tables
    /\ success_steps' = success_steps \cup {"Database Connection"}
    /\ wpc' = "tables"
    /\ UNCHANGED <<ivars, fvars, tvars, w_result, backup, fact_before, loads>>

\* create_warehouse_tables: CREATE TABLE IF NOT EXISTS, then commit.
CreateWarehouseTables ==
    /\ wpc = "tables"
    /\ db' = [db EXCEPT !.schema = TRUE, !.tables = conn]
    /\ success_steps' = success_steps \cup {"Table Creation"}
    /\ wpc' = "load"
    /\ UNCHANGED <<ivars, fvars, tvars, conn, w_result, backup, fact_before, loads>>

\* load_processed_data: delete, insert row by row, load the summary, commit.
\* An exception is caught and False returned, with neither commit nor
\* rollback: the connection keeps what the statements before it did.
LoadProcessedData ==
    /\ wpc = "load"
    /\ wpc' = "views"
    /\ fact_before' = conn.economic_indicators
    /\ IF ~long_file.exists
       THEN UNCHANGED <<db, conn, success_steps>>
       ELSE LET fact == LoadFact(conn.economic_indicators, long_file.rows)
                fact_ok == Inserted(long_file.rows) = Len(long_file.rows)
                summary_ok == ~summary_file.exists
                                  \/ ~SummaryUnreadable(summary_file)
                summary ==
                    IF fact_ok /\ summary_file.exists /\ summary_ok
                    THEN LoadSummary(summary_file.rows, Len(summary_file.rows))
                    ELSE conn.indicator_summary
                after == [economic_indicators |-> fact,
                          indicator_summary |-> summary]
            IN  /\ conn' = after
                /\ IF fact_ok /\ summary_ok
                   THEN /\ db' = [db EXCEPT !.tables = after]
                        /\ success_steps' = success_steps \cup {"Data Loading"}
                   ELSE UNCHANGED <<db, success_steps>>
    /\ UNCHANGED <<ivars, fvars, tvars, w_result, backup, loads>>

\* create_analytical_views: CREATE VIEW IF NOT EXISTS, then commit, which
\* also commits whatever a failed load left in the connection.
CreateAnalyticalViews ==
    /\ wpc = "views"
    /\ db' = [db EXCEPT !.views = TRUE, !.tables = conn]
    /\ success_steps' = success_steps \cup {"Analytical Views"}
    /\ wpc' = "backup"
    /\ UNCHANGED <<ivars, fvars, tvars, conn, w_result, backup, fact_before, loads>>

\* A faulty variant: the backup moves the long artifact instead of copying it.
CreateBackup_Move ==
    /\ wpc = "backup"
    /\ backup' = {f \in {"long", "wide", "summary"} :
                     \/ (f = "long" /\ long_file.exists)
                     \/ (f = "wide" /\ wide_file.exists)
                     \/ (f = "summary" /\ summary_file.exists)}
    /\ long_file' = NoFile
    /\ success_steps' = success_steps \cup {"Data Backup"}
    /\ wpc' = "export"
    /\ UNCHANGED <<ivars, fvars, raw_file, wide_file, summary_file, tpc, df,
                   df_clean, df_features, processed_df, t_written, t_last,
                   db, conn, w_result, fact_before, loads>>

\* create_backup: copies the processed files that exist.
CreateBackup ==
    /\ wpc = "backup"
    /\ backup' = {f \in {"long", "wide", "summary"} :
                     \/ (f = "long" /\ long_file.exists)
                     \/ (f = "wide" /\ wide_file.exists)
                     \/ (f = "summary" /\ summary_file.exists)}
    /\ success_steps' = success_steps \cup {"Data Backup"}
    /\ wpc' = "export"
    /\ UNCHANGED <<ivars, fvars, tvars, db, conn, w_result, fact_before, loads>>

\* export_for_sharing: copies into a new folder and zips it.
ExportForSharing ==
    /\ wpc = "export"
    /\ success_steps' = success_steps \cup {"Export Package"}
    /\ wpc' = "report"
    /\ UNCHANGED <<ivars, fvars, tvars, db, conn, w_result, backup, fact_before, loads>>

\* The end of run_warehouse_pipeline: close the connection and report.
CloseAndReport ==
    /\ wpc = "report"
    /\ conn' = NoTables
    /\ w_result' = IF Cardinality(success_steps) >= 4 THEN "true" ELSE "false"
    /\ wpc' = "exited"
    /\ UNCHANGED <<ivars, fvars, tvars, db, success_steps, backup, fact_before, loads>>

Next ==
    \/ WarehouseMain
    \/ ConnectToWarehouse
    \/ CreateWarehouseTables
    \/ LoadProcessedData
    \/ CreateAnalyticalViews
    \/ CreateBackup
    \/ ExportForSharing
    \/ CloseAndReport
    \/ LoadRawData
    \/ ValidateRawData
    \/ CleanData
    \/ CreateFeatures
    \/ CreateTimeSeriesAnalysis
    \/ SaveProcessedData

Spec == Init /\ [][Next]_vars

\* ------------------------------------------------- ingest_data.py
\* The catalog, in the order the loop visits it.
indicators ==
    <<"gdp_per_capita", "population", "gdp_growth", "unemployment_rate",
      "agriculture_pct_gdp", "industry_pct_gdp">>

\* One element of the data part of a World Bank answer.  value is NaN for a
\* JSON null; date is the text of the 'date' member.
Elem(date, value) ==
    [date |-> date, value |-> value, country |-> <<"Bangladesh">>]

\* An answer of the API: how the request ended and, for a decoded two-part
\* body, its data part.
Answer(kind, data) == [kind |-> kind, data |-> data]

\* fetch_wb_indicator raises: only RequestException and JSONDecodeError are
\* caught, and a decoded body that is a JSON object with several members
\* makes data[1] raise KeyError.
FetchRaises(answer) == answer.kind = "json_object"

\* What fetch_wb_indicator returns; None and an empty data part are both <<>>
\* (main only tests the truth value).
fetch_wb_indicator(answer) ==
    IF answer.kind = "two_part" THEN answer.data ELSE <<>>

\* int(record.get('date')) raises ValueError on a text that is no integer.
DateRaises(date) ==
    date \notin {"", "2000", "2001", " 2001", "2002", "2003", "2004", "2005"}

\* int(...) if the text is non-empty, else None (NaN once in the frame).
YearOf(date) ==
    CASE date = "" -> NaN
      [] date = "2000" -> Q(2000)
      [] date \in {"2001", " 2001"} -> Q(2001)
      [] date = "2002" -> Q(2002)
      [] date = "2003" -> Q(2003)
      [] date = "2004" -> Q(2004)
      [] date = "2005" -> Q(2005)

\* The elements main turns into records: those with a value.
WithValue(data) == SelectSeq(data, LAMBDA e : ~IsNaN(e.value))

\* Building the records of one answer raises.
RecordsRaise(data) ==
    \E i \in 1..Len(WithValue(data)) : DateRaises(WithValue(data)[i].date)

RecordsOf(indicator, data) ==
    LET kept == WithValue(data)
    IN  [i \in 1..Len(kept) |->
            [country_name |-> kept[i].country,
             country_code |-> "BGD",
             indicator_code |-> <<CatalogCode(indicator)>>,
             indicator_name |-> <<indicator>>,
             year |-> YearOf(kept[i].date),
             value |-> kept[i].value]]

\* df.dropna(subset=['value', 'year']).sort_values(['indicator_name', 'year'])
RawTable(records) ==
    StableSort(SelectSeq(records,
                         LAMBDA r : ~IsNaN(r.value) /\ ~IsNaN(r.year)),
               "name_float_year")

\* The answers tried for each catalog entry.
Failure(kind) == Answer(kind, <<>>)

Answers(k) ==
    CASE k = 1 ->
           {Failure("http_error"), Failure("bad_json"), Failure("one_part"),
            Failure("json_object"),
            Answer("two_part", <<>>),
            Answer("two_part", <<Elem("2001", Q(2)), Elem("2000", Q(1))>>),
            Answer("two_part", <<Elem("2000", NaN)>>),
            Answer("two_part", <<Elem("", Q(1)), Elem("2000", Q(2))>>),
            Answer("two_part", <<Elem("", Q(1))>>),
            Answer("two_part", <<Elem("2000", Q(1)), Elem("2000Q1", Q(2))>>),
            Answer("two_part", <<Elem("2000Q1", NaN), Elem(" 2001", Q(2))>>)}
      [] k = 2 ->
           {Failure("timeout"),
            Answer("two_part", <<Elem("2000", Q(5))>>),
            Answer("two_part",
                   <<[Elem("2000", Q(5)) EXCEPT !.country = <<>>]>>)}
      [] k = 3 ->
           {Failure("http_error"),
            Answer("two_part", <<Elem("2001", Q(1)), Elem("2000", Q(0))>>),
            Answer("two_part",
                   <<Elem("2005", Q(5)), Elem("2004", Q(4)), Elem("2003", Q(3)),
                     Elem("2002", Q(2)), Elem("2001", Q(1)), Elem("2000", Q(0))>>)}
      [] k = 4 ->
           {Failure("http_error"), Answer("two_part", <<Elem("2000", Q(4))>>)}
      [] k = 5 ->
           {Failure("timeout"), Answer("two_part", <<Elem("2000", Q(50))>>)}
      [] k = 6 ->
           {Failure("bad_json"), Answer("two_part", <<Elem("2001", Q(50))>>)}

\* One pass of main's loop: fetch one indicator and collect its records.  An
\* exception nobody catches ends the process with a traceback.
FetchIndicator ==
    /\ ipc = "fetch"
    /\ \E answer \in Answers(i_k) :
           LET data == fetch_wb_indicator(answer)
           IN  /\ fetched' = Append(fetched, answer)
               /\ IF FetchRaises(answer) \/ RecordsRaise(data)
                  THEN /\ ipc' = "crashed"
                       /\ UNCHANGED <<i_k, all_records>>
                  ELSE /\ all_records' =
                              all_records \o RecordsOf(indicators[i_k], data)
                       /\ i_k' = i_k + 1
                       /\ ipc' = IF i_k = Len(indicators) THEN "save"
                                 ELSE "fetch"
    /\ UNCHANGED <<tvars, wvars, fvars>>

\* The end of main: nothing is written, and main just returns, when no
\* record was collected.
SaveRawData ==
    /\ ipc = "save"
    /\ ipc' = "exited"
    /\ raw_file' = IF all_records = <<>> THEN raw_file
                   ELSE CsvFile(RawTable(all_records))
    /\ UNCHANGED <<long_file, wide_file, summary_file, tpc, df, df_clean,
                   df_features, processed_df, t_written, t_last,
                   wvars, i_k, all_records, fetched, fvars>>

\* ------------------------------------------------- pipeline_flow.py
\* @task(retries=1)
retries == 1

\* A faulty variant: a failed stage task is started again without end.
AfterFailure_Again(stage) == stage

\* How a stage task that has failed goes on: once more, or the flow fails.
AfterFailure(stage) ==
    IF f_attempts[stage] <= retries THEN stage ELSE "failed"

\* run_ingest starts scripts/ingest_data.py.
RunIngestStart ==
    /\ f_pc = "ingest"
    /\ ~f_running
    /\ f_running' = TRUE
    /\ f_attempts' = [f_attempts EXCEPT !["ingest"] = @ + 1]
    /\ ipc' = "fetch"
    /\ i_k' = 1
    /\ all_records' = <<>>
    /\ fetched' = <<>>
    /\ UNCHANGED <<tvars, wvars, f_pc, f_counts, quality_score>>

\* run_ingest after the script has ended: return code 0 and the raw file
\* exists (and read_csv reads it), else the task raises.
RunIngestEnd ==
    /\ f_pc = "ingest"
    /\ f_running
    /\ ipc \in {"exited", "crashed"}
    /\ f_running' = FALSE
    /\ IF ipc = "exited" /\ raw_file.exists
       THEN /\ f_counts' = [f_counts EXCEPT !["ingest"] = Len(raw_file.rows)]
            /\ f_pc' = "transform"
       ELSE /\ f_pc' = AfterFailure("ingest")
            /\ UNCHANGED f_counts
    /\ UNCHANGED <<tvars, wvars, ivars, f_attempts, quality_score>>

\* run_transform starts scripts/transform_data.py: a new transformer.
RunTransformStart ==
    /\ f_pc = "transform"
    /\ ~f_running
    /\ f_running' = TRUE
    /\ f_attempts' = [f_attempts EXCEPT !["transform"] = @ + 1]
    /\ tpc' = "load"
    /\ t_last' = "none"
    /\ t_written' = {}
    /\ df' = <<>>
    /\ df_clean' = <<>>
    /\ df_features' = <<>>
    /\ processed_df' = <<>>
    /\ UNCHANGED <<raw_file, long_file, wide_file, summary_file, wvars, ivars,
                   f_pc, f_counts, quality_score>>

\* run_transform after the script has ended.  The script's main returns
\* normally when run_transformation returned False; only an exception gives
\* a return code other than 0.
RunTransformEnd ==
    /\ f_pc = "transform"
    /\ f_running
    /\ TransformEnded
    /\ f_running' = FALSE
    /\ IF tpc \in {"done", "returned_false"} /\ long_file.exists
       THEN /\ f_counts' = [f_counts EXCEPT
                               !["transform"] = Len(long_file.rows)]
            /\ f_pc' = "load"
       ELSE /\ f_pc' = AfterFailure("transform")
            /\ UNCHANGED f_counts
    /\ UNCHANGED <<tvars, wvars, ivars, f_attempts, quality_score>>

\* run_load starts scripts/load_to_warehouse.py.
RunLoadStart ==
    /\ f_pc = "load"
    /\ ~f_running
    /\ f_running' = TRUE
    /\ f_attempts' = [f_attempts EXCEPT !["load"] = @ + 1]
    /\ wpc' = "idle"
    /\ UNCHANGED <<tvars, db, conn, success_steps, w_result, backup,
                   fact_before, loads, ivars, f_pc, f_counts, quality_score>>

\* The load script's main, once run_load has started the script.
LoadScriptMain ==
    /\ f_pc = "load"
    /\ f_running
    /\ wpc = "idle"
    /\ WarehouseMain

\* run_load after the script has ended; the script's return code is always
\* 0.  SELECT COUNT(*) raises when the table does not exist.
RunLoadEnd ==
    /\ f_pc = "load"
    /\ f_running
    /\ wpc = "exited"
    /\ f_running' = FALSE
    /\ IF db.exists /\ db.schema
       THEN /\ f_counts' = [f_counts EXCEPT
                               !["load"] = Len(db.tables.economic_indicators)]
            /\ f_pc' = "quality"
       ELSE /\ f_pc' = AfterFailure("load")
            /\ UNCHANGED f_counts
    /\ UNCHANGED <<tvars, wvars, ivars, f_attempts, quality_score>>

\* A faulty variant: the score without the deduction for few indicators.
QualityScore_NoIndicatorCheck(table) ==
    100 - (IF \E i \in 1..Len(table) : IsNaN(table[i].value) THEN 20 ELSE 0)
        - (IF Len(table) < 100 THEN 10 ELSE 0)

\* validate_quality's score.
QualityScore(table) ==
    100 - (IF \E i \in 1..Len(table) : IsNaN(table[i].value) THEN 20 ELSE 0)
        - (IF Cardinality(SeqToSet(Names(table))) < 6 THEN 20 ELSE 0)
        - (IF Len(table) < 100 THEN 10 ELSE 0)

\* validate_quality, and the flow's return with status SUCCESS.
ValidateQuality ==
    /\ f_pc = "quality"
    /\ quality_score' = QualityScore(db.tables.economic_indicators)
    /\ f_pc' = "success"
    /\ UNCHANGED <<tvars, wvars, ivars, f_running, f_attempts, f_counts>>

\* What a flow run may find on disk: nothing; the files and the database of
\* an earlier complete run; the same with a raw file that lacks the year
\* column; and that raw file with only the long file and the database.
FoundOnDisk ==
    {[raw |-> NoFile, long |-> NoFile, wide |-> NoWideFile,
      summary |-> NoSummaryFile, db |-> NoDb],
     [raw |-> CsvFile(EarlierRaw), long |-> EarlierLong, wide |-> EarlierWide,
      summary |-> EarlierSummary, db |-> EarlierDb],
     [raw |-> [CsvFile(EarlierRaw) EXCEPT !.columns = AllColumns \ {"year"}],
      long |-> EarlierLong, wide |-> EarlierWide,
      summary |-> EarlierSummary, db |-> EarlierDb],
     [raw |-> [CsvFile(EarlierRaw) EXCEPT !.columns = AllColumns \ {"year"}],
      long |-> EarlierLong, wide |-> NoWideFile,
      summary |-> NoSummaryFile, db |-> EarlierDb]}

\* A flow run: bangladesh_etl_pipeline is called, no script is running.
FlowInit ==
    /\ \E found \in FoundOnDisk :
           /\ raw_file = found.raw
           /\ long_file = found.long
           /\ wide_file = found.wide
           /\ summary_file = found.summary
           /\ db = found.db
    /\ conn = NoTables
    /\ wpc = "idle"
    /\ success_steps = {}
    /\ w_result = "none"
    /\ backup = {}
    /\ fact_before = <<>>
    /\ loads = 0
    /\ tpc = "idle"
    /\ df = <<>>
    /\ df_clean = <<>>
    /\ df_features = <<>>
    /\ processed_df = <<>>
    /\ t_written = {}
    /\ t_last = "none"
    /\ ipc = "idle"
    /\ i_k = 0
    /\ all_records = <<>>
    /\ fetched = <<>>
    /\ f_pc = "ingest"
    /\ f_running = FALSE
    /\ f_attempts = [s \in Stages |-> 0]
    /\ f_counts = [s \in Stages |-> -1]
    /\ quality_score = -1

FlowNext ==
    \/ RunIngestStart
    \/ FetchIndicator
    \/ SaveRawData
    \/ RunIngestEnd
    \/ RunTransformStart
    \/ LoadRawData
    \/ ValidateRawData
    \/ CleanData
    \/ CreateFeatures
    \/ CreateTimeSeriesAnalysis
    \/ SaveProcessedData
    \/ RunTransformEnd
    \/ RunLoadStart
    \/ LoadScriptMain
    \/ ConnectToWarehouse
    \/ CreateWarehouseTables
    \/ LoadProcessedData
    \/ CreateAnalyticalViews
    \/ CreateBackup
    \/ ExportForSharing
    \/ CloseAndReport
    \/ RunLoadEnd
    \/ ValidateQuality

FlowSpec == FlowInit /\ [][FlowNext]_vars

\* ===================================================== the properties
\* Helpers of the properties below.
YoYName(indicator) == <<indicator, "_yoy_growth_pct">>

TrendName(name) == name \o <<"_trend_coefficient">>

DivName == <<"economic_diversification_index">>

HasRow(rows, name, year, value) ==
    \E i \in 1..Len(rows) :
        /\ rows[i].indicator_name = name
        /\ rows[i].year = year
        /\ rows[i].value = value

\* One indicator's rows, oldest first.
SeriesOf(rows, name) == StableSort(WithName(rows, name), "year")

\* clean_data has returned a dataset.
Cleaned == t_last \in {"features", "timeseries", "save"} \/ tpc = "features"

\* create_features has been called (and has returned or raised).
FeaturesCalled == t_last \in {"features", "timeseries", "save"}

\* create_time_series_analysis has returned.
TimeSeriesDone == t_last \in {"timeseries", "save"}

\* --------------------------------------------------------------- C1
\* C1: for every raw table with the required columns, the dataset that
\* clean_data returns has no two rows with the same (indicator_name, year),
\* the name trimmed and the year an integer.
C1_CleanKeysUnique == Cleaned => ~HasDuplicateKeys(df_clean)

\* --------------------------------------------------------------- C2
\* C2: for each growth-set indicator and each pair of consecutive cleaned
\* observations v_prev, v_cur with v_prev # 0, create_features emits a
\* '<indicator>_yoy_growth_pct' row at the year of v_cur whose value is
\* (v_cur - v_prev) / v_prev * 100.
C2_YoYEmitted ==
    FeaturesCalled =>
        \A g \in 1..Len(growth_indicators) :
            LET data == SeriesOf(df_clean, <<growth_indicators[g]>>)
            IN  \A i \in 2..Len(data) :
                    data[i - 1].value # Q(0) =>
                        HasRow(df_features, YoYName(growth_indicators[g]),
                               data[i].year,
                               QMul(QDiv(QSub(data[i].value, data[i - 1].value),
                                         data[i - 1].value),
                                    Q(100)))

\* --------------------------------------------------------------- C3
\* A whole transform run over the scenario's raw table.
ScenarioRun == raw_file = CsvFile(ScenarioTable) /\ tpc = "done"

ScenarioYoY(rows) ==
    /\ HasRow(rows, YoYName("gdp_per_capita"), FirstYear + 1, Q(10))
    /\ HasRow(rows, YoYName("gdp_per_capita"), FirstYear + 2, Q(10))

\* C3 as stated: the run over gdp_per_capita = 100, 110, 121 for 2000..2002
\* produces the YoY rows (2001, 10) and (2002, 10) and a gdp_per_capita
\* trend-coefficient row at 2002 whose value is the least-squares slope 10.5.
C3_ScenarioYoYAndTrend ==
    ScenarioRun =>
        /\ ScenarioYoY(long_file.rows)
        /\ HasRow(long_file.rows, TrendName(<<"gdp_per_capita">>),
                  FirstYear + 2, <<21, 2>>)

\* C3, amended: the run produces the YoY rows (2001, 10) and (2002, 10) and
\* no trend-coefficient row at all, because three observations are fewer
\* than the five a trend needs; the least-squares slope of the three values
\* is 10.5.
C3_ScenarioYoYNoTrend ==
    ScenarioRun =>
        /\ ScenarioYoY(long_file.rows)
        /\ long_file.rows = processed_df
        /\ \A i \in 1..Len(long_file.rows) :
               \A name \in SeqToSet(Names(long_file.rows)) :
                   long_file.rows[i].indicator_name # TrendName(name)
        /\ PolyfitSlope(Years(CleanRows(ScenarioTable)),
                        Values(CleanRows(ScenarioTable))) = <<21, 2>>

C3_ScenarioRan ==
    /\ ScenarioRun
    /\ Len(WithName(long_file.rows, YoYName("gdp_per_capita"))) = 2
    /\ Len(WithName(long_file.rows, <<"gdp_per_capita">>)) = 3

\* --------------------------------------------------------------- C4
\* The rows create_time_series_analysis has added to the features.
TrendsAdded == SubSeq(processed_df, Len(df_features) + 1, Len(processed_df))

\* C4: create_time_series_analysis emits exactly one
\* '<indicator>_trend_coefficient' row, at the indicator's latest year, for
\* every indicator with at least 5 observations in the feature-enriched
\* dataset, and none for an indicator with fewer than 5; a trend row gets
\* no trend of its own.
C4_OneTrendPerQualifying ==
    TimeSeriesDone =>
        /\ \A name \in SeqToSet(Names(df_features)) :
               LET data == SeriesOf(df_features, name)
                   emitted == WithName(TrendsAdded, TrendName(name))
               IN  IF Len(data) >= 5
                   THEN /\ Len(emitted) = 1
                        /\ emitted[1].year = data[Len(data)].year
                   ELSE emitted = <<>>
        /\ \A i \in 1..Len(TrendsAdded) :
               \E name \in SeqToSet(Names(df_features)) :
                   TrendsAdded[i].indicator_name = TrendName(name)

\* --------------------------------------------------------------- C5
\* The index as the specification writes it.
IndexOf(agri, ind) ==
    QSub(Q(1),
         QAdd(QAdd(QMul(QDiv(agri, Q(100)), QDiv(agri, Q(100))),
                   QMul(QDiv(ind, Q(100)), QDiv(ind, Q(100)))),
              QMul(QDiv(QSub(QSub(Q(100), agri), ind), Q(100)),
                   QDiv(QSub(QSub(Q(100), agri), ind), Q(100)))))

\* C5: create_features emits an economic_diversification_index row for a
\* year if and only if the cleaned dataset has both an agriculture_pct_gdp
\* and an industry_pct_gdp row for that year, and its value is
\* 1 - ((agri/100)^2 + (industry/100)^2 + ((100 - agri - industry)/100)^2).
C5_DiversificationIff ==
    FeaturesCalled =>
        \A year \in SeqToSet(Years(df_clean)) \cup SeqToSet(Years(df_features)) :
            LET agri == SelectSeq(WithName(df_clean, <<"agriculture_pct_gdp">>),
                                  LAMBDA r : r.year = year)
                ind == SelectSeq(WithName(df_clean, <<"industry_pct_gdp">>),
                                 LAMBDA r : r.year = year)
                emitted == SelectSeq(WithName(df_features, DivName),
                                     LAMBDA r : r.year = year)
            IN  /\ (emitted # <<>>) <=> (agri # <<>> /\ ind # <<>>)
                /\ \A i \in 1..Len(emitted) :
                       emitted[i].value = IndexOf(agri[1].value, ind[1].value)

\* --------------------------------------------------------------- C6
\* Both shares of a year are percentages: non-negative, together at most 100.
ValidShares(agri, ind) ==
    /\ IsFinite(agri) /\ IsFinite(ind)
    /\ QLeq(Q(0), agri) /\ QLeq(Q(0), ind)
    /\ QLeq(QAdd(agri, ind), Q(100))

\* C6: for every year whose agriculture and industry percentages are both
\* non-negative and sum to at most 100, the emitted
\* economic_diversification_index lies in [0, 1).
C6_IndexInUnitInterval ==
    FeaturesCalled =>
        \A i \in 1..Len(df_features) :
            LET r == df_features[i]
            IN  (/\ r.indicator_name = DivName
                 /\ ValidShares(Cell(df_clean, <<"agriculture_pct_gdp">>, r.year),
                                Cell(df_clean, <<"industry_pct_gdp">>, r.year)))
                    => QLeq(Q(0), r.value) /\ QLess(r.value, Q(1))

\* An index of valid shares has been emitted, and one that touches the
\* lower end of the interval.
C6_IndexEmitted ==
    /\ tpc = "timeseries"
    /\ \E i \in 1..Len(df_features) :
           LET r == df_features[i]
           IN  /\ r.indicator_name = DivName
               /\ ValidShares(Cell(df_clean, <<"agriculture_pct_gdp">>, r.year),
                              Cell(df_clean, <<"industry_pct_gdp">>, r.year))
               /\ r.value = Q(0)

\* --------------------------------------------------------------- C7
\* The rows lie on a line value = a * year + b; a is the slope of the first
\* step.
LineSlope(data) ==
    QDiv(QSub(data[2].value, data[1].value), Q(data[2].year - data[1].year))

OnALine(data) ==
    /\ \A i \in 1..Len(data) : IsFinite(data[i].value)
    /\ data[2].year # data[1].year
    /\ \A i \in 1..Len(data) :
           QSub(data[i].value, data[1].value)
               = QMul(LineSlope(data), Q(data[i].year - data[1].year))

\* C7: for any indicator with at least 5 observations whose values satisfy
\* value = a * year + b exactly, the emitted trend coefficient equals a.
C7_LinearTrendIsSlope ==
    TimeSeriesDone =>
        \A name \in SeqToSet(Names(df_features)) :
            LET data == SeriesOf(df_features, name)
                emitted == WithName(TrendsAdded, TrendName(name))
            IN  (Len(data) >= 5 /\ OnALine(data)) =>
                    \A i \in 1..Len(emitted) : emitted[i].value = LineSlope(data)

\* --------------------------------------------------------------- C8
\* The wide table melted back, empty cells discarded.
Melt(wide) ==
    {<<wide.lines[i].year, wide.columns[c], wide.lines[i].cells[c]>> :
        i \in 1..Len(wide.lines), c \in 1..Len(wide.columns)}
    \ {<<wide.lines[i].year, wide.columns[c], NaN>> :
        i \in 1..Len(wide.lines), c \in 1..Len(wide.columns)}

Triples(rows) ==
    {<<rows[i].year, rows[i].indicator_name, rows[i].value>> :
        i \in 1..Len(rows)}

\* save_processed_data has written all its files in this run.
Saved == t_last = "save" /\ tpc = "done"

\* C8: melting the wide table written by save_processed_data and discarding
\* empty cells yields exactly the (year, indicator_name, value) triples of
\* the long dataset written in the same run; a missing indicator-year
\* combination is an empty cell, never zero.
C8_WideRoundTrip ==
    Saved =>
        /\ Melt(wide_file.table) = Triples(long_file.rows)
        /\ \A i \in 1..Len(wide_file.table.lines) :
               \A c \in 1..Len(wide_file.table.columns) :
                   <<wide_file.table.columns[c], wide_file.table.lines[i].year>>
                       \notin KeySet(long_file.rows)
                     => wide_file.table.lines[i].cells[c] = NaN

\* --------------------------------------------------------------- C9
\* load_processed_data has just returned True / has just returned.
Loaded == wpc = "views" /\ "Data Loading" \in success_steps

LoadReturned == wpc = "views" /\ long_file.exists

NoTwoRowsPerKey ==
    /\ ~HasDuplicateKeys(conn.economic_indicators)
    /\ ~HasDuplicateKeys(db.tables.economic_indicators)

TaskEnded(stage) == f_attempts[stage] >= 1 /\ ~(f_pc = stage /\ f_running)

\* The last attempt of the stage task returned a count.
TaskSucceeded(stage) == f_counts[stage] >= 0

\* The stage's script has ended with return code 0.
ExitZero(stage) ==
    CASE stage = "ingest" -> ipc = "exited"
      [] stage = "transform" -> tpc \in {"done", "returned_false"}
      [] stage = "load" -> wpc = "exited"

\* The stage's declared output artifact exists and holds data.
ArtifactNonEmpty(stage) ==
    CASE stage = "ingest" -> raw_file.exists /\ raw_file.rows # <<>>
      [] stage = "transform" -> long_file.exists /\ long_file.rows # <<>>
      [] stage = "load" ->
             /\ db.exists /\ db.schema
             /\ db.tables.economic_indicators # <<>>

\* C11: a stage task (run_ingest, run_transform, run_load) reports success
\* if and only if the stage's script exited with status 0 and the stage's
\* output artifact exists and is non-empty; status 0 with a missing or
\* empty artifact is a stage failure.
C11_SuccessIffExitAndArtifact ==
    \A stage \in Stages :
        TaskEnded(stage) =>
            (TaskSucceeded(stage) <=> (ExitZero(stage) /\ ArtifactNonEmpty(stage)))

\* --------------------------------------------------------------- C12
\* The stage before a stage.
Preceding(stage) == IF stage = "load" THEN "transform" ELSE "ingest"

\* A stage task has failed all the attempts it has.
FailedTwice(stage) ==
    f_attempts[stage] = 2 /\ ~TaskSucceeded(stage) /\ TaskEnded(stage)

\* C12: in one pipeline run each of ingest, transform and load is attempted
\* at most twice; a stage is started only after the preceding stage
\* succeeded; once a stage has failed both attempts the run has ended in
\* failure, and from then on no stage is started.
C12_AtMostTwiceInOrder ==
    /\ [](\A stage \in Stages :
              /\ f_attempts[stage] <= 2
              /\ (stage # "ingest" /\ f_attempts[stage] >= 1)
                     => TaskSucceeded(Preceding(stage))
              /\ FailedTwice(stage) => f_pc = "failed"
              /\ (f_pc = "failed" /\ f_attempts[stage] >= 1 /\ stage # "ingest")
                     => ~FailedTwice(Preceding(stage)))
    /\ [][f_pc = "failed" =>
             /\ f_pc' = "failed"
             /\ f_attempts' = f_attempts
             /\ ~f_running']_vars

\* The transform has failed both attempts after a successful ingest, and
\* the load was never started.
C12_TransformFailedTwice ==
    /\ f_pc = "failed"
    /\ TaskSucceeded("ingest")
    /\ FailedTwice("transform")
    /\ f_attempts["load"] = 0
    /\ wpc = "idle"

\* --------------------------------------------------------------- C13
\* No answer of this ingest run held an observation with a value.
NoObservation ==
    \A i \in 1..Len(fetched) :
        WithValue(fetch_wb_indicator(fetched[i])) = <<>>

\* C13: when no indicator of the catalog returns any non-null observation,
\* the ingest stage ends with a failure outcome and does not complete as a
\* success.
C13_NoDataIsFailure ==
    (/\ TaskEnded("ingest")
     /\ Len(fetched) = Len(indicators)
     /\ NoObservation)
        => ~TaskSucceeded("ingest")

\* --------------------------------------------------------------- C14
\* The fetch and the decoding of the i-th answer went through.
Decoded(i) ==
    /\ ~FetchRaises(fetched[i])
    /\ ~RecordsRaise(fetch_wb_indicator(fetched[i]))
    /\ fetch_wb_indicator(fetched[i]) # <<>>

\* C14: whatever way the fetch or the decoding of one indicator fails (HTTP
\* error, timeout, undecodable body, no two-part envelope, unparsable date),
\* every other indicator of the catalog is still requested, and the
\* observations of the indicators that succeeded are written to the raw
\* artifact.
C14_FailuresIsolated ==
    ipc \in {"exited", "crashed"} =>
        /\ Len(fetched) = Len(indicators)
        /\ \A i \in 1..Len(fetched) :
               Decoded(i) =>
                   LET rows == RawTable(RecordsOf(indicators[i],
                                            fetch_wb_indicator(fetched[i])))
                   IN  \A j \in 1..Len(rows) :
                           \E k \in 1..Len(raw_file.rows) :
                               raw_file.rows[k] = rows[j]

\* --------------------------------------------------------------- C15
\* The place of a transform phase in the order of run_transformation.
PhaseRank(phase) ==
    CASE phase = "none" -> 0
      [] phase = "load" -> 1
      [] phase = "validate" -> 2
      [] phase = "clean" -> 3
      [] phase = "features" -> 4
      [] phase = "timeseries" -> 5
      [] phase = "save" -> 6

\* A phase of the transform has failed: it returned False or raised.
PhaseFailed == tpc \in {"returned_false", "raised"}

\* C15: a transform run executes load, validate, clean, feature creation,
\* time-series analysis and save in this order, each at most once; after a
\* phase has failed no later phase runs, and none of the three processed
\* artifacts is written.
C15_PhasesInOrderNothingWritten ==
    /\ [][t_last' # t_last =>
             /\ ~PhaseFailed
             /\ PhaseRank(t_last') = PhaseRank(t_last) + 1]_vars
    /\ [](PhaseFailed => t_written = {})

\* --------------------------------------------------------------- C16
\* The stage's script has ended in failure: the transform returned False
\* or raised; the load script found a processed artifact missing or its
\* warehouse pipeline did not report success.
ScriptFailed(stage) ==
    CASE stage = "transform" -> PhaseFailed
      [] stage = "load" -> wpc = "exited" /\ w_result # "true"
      [] OTHER -> FALSE

\* C16: whenever the transform script or the load script fails, the
\* orchestrator task of that stage ends in failure, is retried once, and
\* the pipeline run then halts instead of reporting SUCCESS.
C16_StageFailureReachesFlow ==
    \A stage \in {"transform", "load"} :
        (TaskEnded(stage) /\ ScriptFailed(stage)) =>
            /\ ~TaskSucceeded(stage)
            /\ f_pc \in {stage, "failed"}
            /\ f_pc = "failed" => f_attempts[stage] = 2

\* --------------------------------------------------------------- C17
\* C17: no stage modifies or deletes an artifact of an upstream stage,
\* whether it succeeds or fails: every step of the transform script leaves
\* the raw artifact as it is, and every step of the load script (backup and
\* export included) leaves the raw artifact and the three processed
\* artifacts as they are.
C17_UpstreamUntouched ==
    [][/\ (t_last' # t_last /\ t_last' # "none") => raw_file' = raw_file
       /\ (wpc' # wpc /\ wpc' # "idle") =>
              /\ raw_file' = raw_file
              /\ long_file' = long_file
              /\ wide_file' = wide_file
              /\ summary_file' = summary_file]_vars

\* A run in which the transform has written its artifacts and the load
\* script has backed them up, exported them and ended.
C17_BackedUpAndExported ==
    /\ f_pc = "success"
    /\ raw_file.exists
    /\ t_written = {"long", "wide", "summary"}
    /\ backup = {"long", "wide", "summary"}
    /\ "Export Package" \in success_steps
    /\ wpc = "exited"

\* --------------------------------------------------------------- C18
\* SELECT MAX(year) FROM economic_indicators
MaxYear(table) ==
    CHOOSE y \in {table[i].year : i \in 1..Len(table)} :
        \A i \in 1..Len(table) : table[i].year <= y

\* The rows of v_latest_indicators.  The WHERE clause selects the rows of
\* the latest year before the window function is evaluated, so LAG looks
\* back only within the selected rows of the indicator; NULL when there is
\* none, and value - NULL is NULL.
v_latest_indicators(table) ==
    IF table = <<>> THEN <<>>
    ELSE LET latest == SelectSeq(table, LAMBDA r : r.year = MaxYear(table))
             Lag(i) ==
                 LET before == {j \in 1..(i - 1) :
                                   latest[j].indicator_name =
                                       latest[i].indicator_name}
                 IN  IF before = {} THEN NaN
                     ELSE latest[CHOOSE j \in before :
                                     \A k \in before : k <= j].value
         IN  [i \in 1..Len(latest) |->
                 [indicator_name |-> latest[i].indicator_name,
                  year |-> latest[i].year,
                  value |-> latest[i].value,
                  previous_year_value |-> Lag(i),
                  year_over_year_change |->
                      IF IsNaN(Lag(i)) \/ IsNaN(latest[i].value) THEN NaN
                      ELSE QSub(latest[i].value, Lag(i))]]

\* The indicator's rows of the fact table before a year.
EarlierObservations(table, name, year) ==
    {i \in 1..Len(table) :
        table[i].indicator_name = name /\ table[i].year < year}

\* C18: v_latest_indicators returns, for each indicator observed at the
\* latest year of the fact table, that observation with the indicator's
\* value at its preceding observed year (previous_year_value) and the
\* difference of the two (year_over_year_change); both are non-null
\* whenever the indicator has an earlier observation in the fact table.
C18_LatestViewHasPreviousYear ==
    (db.exists /\ db.views /\ "Analytical Views" \in success_steps) =>
        LET fact == db.tables.economic_indicators
            view == v_latest_indicators(fact)
        IN  \A i \in 1..Len(view) :
                LET earlier == EarlierObservations(fact, view[i].indicator_name,
                                                   view[i].year)
                IN  earlier # {} =>
                        LET p == CHOOSE j \in earlier :
                                     \A k \in earlier : fact[k].year <= fact[j].year
                        IN  (~IsNaN(fact[p].value) /\ ~IsNaN(view[i].value)) =>
                                /\ view[i].previous_year_value = fact[p].value
                                /\ view[i].year_over_year_change =
                                       QSub(view[i].value, fact[p].value)

\* --------------------------------------------------------------- C19
\* create_features has returned a dataset.
FeaturesReturned == t_last \in {"timeseries", "save"} \/ tpc = "timeseries"

\* create_features has emitted a YoY observation of the indicator at a year.
YoYEmittedAt(indicator, year) ==
    \E i \in 1..Len(df_features) :
        /\ df_features[i].indicator_name = YoYName(indicator)
        /\ df_features[i].indicator_code =
               <<"CALC_", UpperToken(indicator), "_YOY">>
        /\ df_features[i].year = year

\* C19: for every growth-set indicator, create_features emits a YoY
\* observation for a year if and only if the year is not the first of the
\* indicator's sorted series and the preceding value is non-zero; none is
\* emitted for the first year or after a zero value.
C19_YoYIffDefined ==
    FeaturesReturned =>
        \A g \in 1..Len(growth_indicators) :
            LET data == SeriesOf(df_clean, <<growth_indicators[g]>>)
            IN  \A i \in 1..Len(data) :
                    YoYEmittedAt(growth_indicators[g], data[i].year)
                        <=> (i > 1 /\ data[i - 1].value # Q(0))

\* --------------------------------------------------------------- C20
\* The ingest script has written the raw artifact in this run.
RawWritten == ipc = "exited" /\ all_records # <<>>

\* The rows of the raw artifact for the k-th indicator of the catalog.
RawRowsOf(k) == WithName(raw_file.rows, <<indicators[k]>>)

\* C20: ingest emits exactly one raw row for each returned data element
\* whose value is non-null and none for an element whose value is null; no
\* value is imputed: the raw artifact's rows for an indicator correspond
\* one to one to the indicator's returned non-null values.
C20_OneRowPerValue ==
    RawWritten =>
        \A k \in 1..Len(fetched) :
            LET kept == WithValue(fetch_wb_indicator(fetched[k]))
                rows == RawRowsOf(k)
            IN  /\ Len(rows) = Len(kept)
                /\ \A v \in {kept[i].value : i \in 1..Len(kept)} :
                       Cardinality({i \in 1..Len(kept) : kept[i].value = v})
                           = Cardinality({j \in 1..Len(rows) : rows[j].value = v})

\* --------------------------------------------------------------- C21
\* validate_raw_data has been called (and has returned or raised).
ValidateCalled == t_last = "validate"

\* C21: validate_raw_data aborts the run if and only if one of the required
\* columns country_name, indicator_name, year, value is missing; null
\* values, duplicate keys and years outside [1990, 2030] only produce
\* warnings, and the loaded dataset is left unchanged.
C21_ValidateAbortsIffColumnMissing ==
    ValidateCalled =>
        /\ (tpc = "raised") <=> ~(required_cols \subseteq raw_file.columns)
        /\ df = raw_file.rows

\* --------------------------------------------------------------- C22
\* The i-th raw row has a value and no raw row before it has a value and
\* the same (indicator_name, year).
FirstWithValue(i) ==
    /\ ~IsNaN(df[i].value)
    /\ \A j \in 1..(i - 1) :
           ~(Key(df[j]) = Key(df[i]) /\ ~IsNaN(df[j].value))

\* C22: of several raw rows with the same (indicator_name, year) clean_data
\* keeps the one that occurs first among those with a non-null value and
\* drops the others; it drops every row whose value is null; every other
\* raw row is kept (with its name and country trimmed, its year an integer).
C22_KeepsFirstWithValue ==
    Cleaned =>
        LET kept == {i \in 1..Len(df) : FirstWithValue(i)}
        IN  /\ Len(df_clean) = Cardinality(kept)
            /\ \A i \in kept :
                   Cardinality({k \in 1..Len(df_clean) :
                                   df_clean[k] = Standardize(df[i])})
                       = Cardinality({j \in kept :
                                         Standardize(df[j]) = Standardize(df[i])})

\* clean_data has returned on a raw table that holds one key twice with two
\* different values, and has kept one row.
C22_DuplicateDropped ==
    /\ Cleaned
    /\ Len(df) = 2
    /\ Key(df[1]) = Key(df[2])
    /\ ~IsNaN(df[1].value) /\ ~IsNaN(df[2].value)
    /\ df[1].value # df[2].value
    /\ Len(df_clean) = 1

\* --------------------------------------------------------------- C23
\* The transform run has written its three artifacts.
TransformDone == tpc = "done"

\* C23: the summary table has exactly one record per distinct
\* indicator_name of the fully enriched dataset; the record's count is the
\* number of the indicator's observations, its min_year and max_year their
\* smallest and largest year; it is recomputed from scratch on every run
\* (it holds no record of an indicator the dataset of this run lacks).
C23_SummaryPerIndicator ==
    TransformDone =>
        LET summary == summary_file.rows
            names == {processed_df[i].indicator_name : i \in 1..Len(processed_df)}
        IN  /\ Len(summary) = Cardinality(names)
            /\ \A i \in 1..Len(summary) : summary[i].indicator \in names
            /\ \A name \in names :
                   LET years == {processed_df[i].year :
                                    i \in {j \in 1..Len(processed_df) :
                                              processed_df[j].indicator_name = name}}
                   IN  \E i \in 1..Len(summary) :
                           /\ summary[i].indicator = name
                           /\ summary[i].count = Len(WithName(processed_df, name))
                           /\ summary[i].min_year \in years
                           /\ summary[i].max_year \in years
                           /\ \A y \in years :
                                  summary[i].min_year <= y /\ y <= summary[i].max_year

\* A run on top of an earlier run's artifacts has written a summary of
\* base, YoY and trend indicators that differs from the one it found.
C23_SummaryRewritten ==
    /\ TransformDone
    /\ db.exists
    /\ summary_file.rows # EarlierSummary.rows
    /\ \E i, j, k \in 1..Len(summary_file.rows) :
           /\ summary_file.rows[i].indicator = <<"gdp_growth">>
           /\ summary_file.rows[i].count >= 2
           /\ summary_file.rows[j].indicator = YoYName("gdp_growth")
           /\ summary_file.rows[k].indicator = TrendName(<<"gdp_growth">>)

\* --------------------------------------------------------------- C24
\* The first rows of a dataset are the rows of another, unchanged.
StartsWith(rows, first) ==
    /\ Len(first) <= Len(rows)
    /\ SubSeq(rows, 1, Len(first)) = first

\* An indicator_code with the prefix of a calculated indicator.
DerivedCode(code) ==
    /\ code # <<>>
    /\ code[1] \in {"CALC_", "TREND_", "CALC_ECON_DIV_IDX"}

\* The rows after the first n are derived rows, each created once.
AppendedOnce(rows, n) ==
    /\ \A i \in (n + 1)..Len(rows) : DerivedCode(rows[i].indicator_code)
    /\ \A i, j \in (n + 1)..Len(rows) : i # j => Key(rows[i]) # Key(rows[j])

\* C24: feature derivation and time-series analysis only append rows: every
\* observation of the cleaned dataset is unchanged in the final long-format
\* dataset, every derived row is created once and not altered afterwards,
\* and every appended row has an indicator_code prefixed CALC_ or TREND_.
C24_OnlyAppends ==
    /\ FeaturesReturned =>
           /\ StartsWith(df_features, df_clean)
           /\ AppendedOnce(df_features, Len(df_clean))
    /\ TimeSeriesDone =>
           /\ StartsWith(processed_df, df_features)
           /\ AppendedOnce(processed_df, Len(df_clean))
    /\ t_last = "save" => long_file.rows = processed_df

\* A run whose final dataset holds base rows followed by YoY,
\* diversification and trend rows.
C24_AllKindsAppended ==
    /\ t_last = "save"
    /\ df_clean # <<>>
    /\ \E i, j, k \in (Len(df_clean) + 1)..Len(processed_df) :
           /\ processed_df[i].indicator_code[1] = "CALC_"
           /\ processed_df[j].indicator_name = DivName
           /\ processed_df[k].indicator_code[1] = "TREND_"

\* --------------------------------------------------------------- C25
\* The flow has returned with status SUCCESS.
ReportedSuccess == f_pc = "success"

\* C25: a pipeline run that reports SUCCESS had each of ingest, transform
\* and load write its output artifact during that run; the reported counts
\* never describe an artifact an earlier run has left behind.
C25_SuccessMeansWritten ==
    ReportedSuccess =>
        /\ RawWritten
        /\ TransformDone /\ "long" \in t_written
        /\ wpc = "exited" /\ "Data Loading" \in success_steps

\* --------------------------------------------------------------- C26
\* run_warehouse_pipeline has ended, and its load_processed_data failed
\* after the DELETE.
LoadFailedAfterDelete ==
    /\ wpc = "exited"
    /\ "Table Creation" \in success_steps
    /\ "Data Loading" \notin success_steps
    /\ long_file.exists

\* C26: a failed load is atomic for the fact table: if load_processed_data
\* fails after it has deleted the rows of economic_indicators, the content
\* committed at the end of run_warehouse_pipeline is the content the table
\* had before the run, never an empty or partly loaded table.
C26_FailedLoadAtomic ==
    LoadFailedAfterDelete => db.tables.economic_indicators = fact_before

\* --------------------------------------------------------------- C27
\* C27: run_warehouse_pipeline returns success only if its Data Loading
\* step succeeded, that is, only if the fact table was reloaded from the
\* current long-format artifact in that run; a failure of table creation
\* or of data loading makes the warehouse pipeline report failure.
C27_SuccessNeedsDataLoading ==
    (wpc = "exited" /\ w_result = "true") =>
        /\ "Table Creation" \in success_steps
        /\ "Data Loading" \in success_steps
        /\ db.tables.economic_indicators = LoadFact(<<>>, long_file.rows)

\* --------------------------------------------------------------- C28
\* C28: the long-format artifact a transform run writes has at most one row
\* per (indicator_name, year) across base, YoY, diversification and trend
\* rows, for every raw table (one that holds rows named like a derived
\* indicator included), so that loading it keeps one fact row per row.
C28_LongKeysUnique ==
    "long" \in t_written =>
        /\ ~HasDuplicateKeys(long_file.rows)
        /\ Len(LoadFact(<<>>, long_file.rows)) = Inserted(long_file.rows)

\* --------------------------------------------------------------- C29
\* The deductions of the score for a fact table.
Deductions(table) ==
    (IF \E i \in 1..Len(table) : IsNaN(table[i].value) THEN 20 ELSE 0)
    + (IF Cardinality({table[i].indicator_name : i \in 1..Len(table)}) < 6
       THEN 20 ELSE 0)
    + (IF Len(table) < 100 THEN 10 ELSE 0)

\* C29: validate_quality returns 100 minus 20 if a fact row has a null
\* value, minus 20 if the fact table has fewer than 6 distinct indicator
\* names, minus 10 if it has fewer than 100 rows; the score is one of 50,
\* 60, 70, 80, 90, 100, and a low score never makes a run fail whose three
\* stages succeeded.
C29_QualityScore ==
    /\ [](ReportedSuccess =>
              /\ quality_score = 100 - Deductions(db.tables.economic_indicators)
              /\ quality_score \in {50, 60, 70, 80, 90, 100})
    /\ []((\A stage \in Stages : TaskSucceeded(stage) /\ TaskEnded(stage))
              => f_pc \in {"quality", "success"})
    /\ [][f_pc = "quality" => f_pc' = "success"]_vars

\* A run has reported SUCCESS with the lowest score.
C29_LowestScoreSuccess ==
    /\ ReportedSuccess
    /\ quality_score = 50
    /\ \A stage \in Stages : TaskSucceeded(stage)

====
